---------------------------- MODULE Spec2Model ----------------------------
(***************************************************************************)
(* Model of askama_derive: configuration resolution (config.rs) and the    *)
(* derive pipeline (lib.rs).                                               *)
(*                                                                         *)
(* Strings that the code inspects byte by byte (delimiters) are sequences  *)
(* of one-byte strings; paths are sequences of components, an absolute     *)
(* path starting with the component "/".  Option<T> is a sequence of       *)
(* length 0 (None) or 1 (Some(v)).  Result<T, CompileError> is a record    *)
(* [ok, val, err], err being <<message kind, arguments...>>.               *)
(***************************************************************************)
EXTENDS Naturals, Sequences, FiniteSets

VARIABLES
    pc,              \* position of the running operation
    feature_config,  \* whether the crate is built with feature "config"
    fs,              \* the filesystem: existing path -> content
    raw_s,           \* Syntax::try_from: the RawSyntax argument
    syntax,          \* Syntax::try_from: the returned Result
    s,               \* Config::new: the document text; build_template: s
    config,          \* Config::new: the returned Result; build_template: config
    path,            \* Config::find_template: argument path
    start_at,        \* Config::find_template: argument start_at
    found,           \* Config::find_template: the returned Result
    template_args,   \* build_template: template_args
    input,           \* build_template: input
    templates,       \* build_template: templates
    contexts,        \* build_template: contexts
    heritage,        \* build_template: heritage
    stderr,          \* what eprintln! has written
    built,           \* the Result build_template returned
    calls,           \* the fallible calls made so far, with their outcomes
    sk_config,       \* build_skeleton: config
    sk_input,        \* build_skeleton: input
    skeleton,        \* the Result build_skeleton returned
    output,          \* derive_template: the token stream returned
    cwd,             \* what std::env::current_dir() returns
    file_info,       \* FileInfo: the value displayed
    rendered         \* FileInfo::fmt: what was written to the formatter

envVars == <<feature_config, fs>>
synVars == <<raw_s, syntax>>
cfgVars == <<s, config>>
findVars == <<path, start_at, found>>
buildVars == <<template_args, input, templates, contexts, heritage, stderr, built>>
deriveVars == <<sk_config, sk_input, skeleton, output>>
infoVars == <<cwd, file_info, rendered>>
vars == <<pc, envVars, synVars, cfgVars, findVars, buildVars, calls, deriveVars,
          infoVars>>

-----------------------------------------------------------------------------
(* Option and Result *)

None == <<>>
Some(v) == <<v>>
unwrap_or(o, d) == IF o = <<>> THEN d ELSE o[1]

Ok(v) == [ok |-> TRUE, val |-> v, err |-> <<>>]
Err(e) == [ok |-> FALSE, val |-> <<>>, err |-> e]
Idle == [ok |-> FALSE, val |-> <<>>, err |-> <<"not run">>]

-----------------------------------------------------------------------------
(* Bounds of the model *)

MaxDelimLen == 3
MaxSyntaxes == 2
MaxEscapers == 2
MaxDirs == 2
MaxSourceLen == 3

-----------------------------------------------------------------------------
(* config.rs: Syntax *)

DelimLen == 2

Syntax_default ==
    [block_start   |-> <<"{", "%">>,
     block_end     |-> <<"%", "}">>,
     expr_start    |-> <<"{", "{">>,
     expr_end      |-> <<"}", "}">>,
     comment_start |-> <<"{", "#">>,
     comment_end   |-> <<"#", "}">>]

SyntaxFields ==
    {"block_start", "block_end", "expr_start", "expr_end",
     "comment_start", "comment_end"}

\* slip: an absent expr_end takes the default of block_end
Syntax_fill_slip(raw) ==
    [block_start   |-> unwrap_or(raw.block_start, Syntax_default.block_start),
     block_end     |-> unwrap_or(raw.block_end, Syntax_default.block_end),
     expr_start    |-> unwrap_or(raw.expr_start, Syntax_default.expr_start),
     expr_end      |-> unwrap_or(raw.expr_end, Syntax_default.block_end),
     comment_start |-> unwrap_or(raw.comment_start, Syntax_default.comment_start),
     comment_end   |-> unwrap_or(raw.comment_end, Syntax_default.comment_end)]

\* lines 150-158: every field is the raw value or the default of that field
Syntax_fill(raw) ==
    [block_start   |-> unwrap_or(raw.block_start, Syntax_default.block_start),
     block_end     |-> unwrap_or(raw.block_end, Syntax_default.block_end),
     expr_start    |-> unwrap_or(raw.expr_start, Syntax_default.expr_start),
     expr_end      |-> unwrap_or(raw.expr_end, Syntax_default.expr_end),
     comment_start |-> unwrap_or(raw.comment_start, Syntax_default.comment_start),
     comment_end   |-> unwrap_or(raw.comment_end, Syntax_default.comment_end)]

\* slip: the length of comment_end is not looked at
Syntax_bad_length_slip(syn) ==
    \/ Len(syn.block_start) # DelimLen
    \/ Len(syn.block_end) # DelimLen
    \/ Len(syn.expr_start) # DelimLen
    \/ Len(syn.expr_end) # DelimLen
    \/ Len(syn.comment_start) # DelimLen

\* lines 160-166
Syntax_bad_length(syn) ==
    \/ Len(syn.block_start) # DelimLen
    \/ Len(syn.block_end) # DelimLen
    \/ Len(syn.expr_start) # DelimLen
    \/ Len(syn.expr_end) # DelimLen
    \/ Len(syn.comment_start) # DelimLen
    \/ Len(syn.comment_end) # DelimLen

\* slip: two openers agreeing on a byte are enough
Syntax_common_char_slip(syn) ==
    LET bs == syn.block_start[1]
        be == syn.block_start[2]
        cs == syn.comment_start[1]
        ce == syn.comment_start[2]
        es == syn.expr_start[1]
        ee == syn.expr_start[2]
    IN  (bs = cs \/ bs = es) \/ (be = ce \/ be = ee)

\* lines 170-176
Syntax_common_char(syn) ==
    LET bs == syn.block_start[1]
        be == syn.block_start[2]
        cs == syn.comment_start[1]
        ce == syn.comment_start[2]
        es == syn.expr_start[1]
        ee == syn.expr_start[2]
    IN  (bs = cs /\ bs = es) \/ (be = ce /\ be = ee)

Syntax_try_from(raw) ==
    LET syn == Syntax_fill(raw)
    IN  IF Syntax_bad_length(syn)
        THEN Err(<<"length of delimiters must be two">>)
        ELSE IF ~Syntax_common_char(syn)
        THEN Err(<<"bad delimiters", syn.block_start, syn.comment_start,
                   syn.expr_start>>)
        ELSE Ok(syn)

-----------------------------------------------------------------------------
(* Inputs of Syntax::try_from *)

OpenBytes == {"{", "<"}
CloseByte == "}"

\* a string of n equal bytes: only its length is ever read when n # DelimLen
Rep(b, n) == [i \in 1..n |-> b]

OpenDelims ==
    [1..DelimLen -> OpenBytes]
        \cup {Rep("{", n) : n \in (0..MaxDelimLen) \ {DelimLen}}
CloseDelims == {Rep(CloseByte, n) : n \in 0..MaxDelimLen}

Opt(S) == {None} \cup {Some(v) : v \in S}

RawSyntaxes(names) ==
    [name          : names,
     block_start   : Opt(OpenDelims),
     block_end     : Opt(CloseDelims),
     expr_start    : Opt(OpenDelims),
     expr_end      : Opt(CloseDelims),
     comment_start : Opt(OpenDelims),
     comment_end   : Opt(CloseDelims)]

-----------------------------------------------------------------------------
(* config.rs: paths.  PathBuf::join replaces the base by an absolute argument *)

is_absolute(p) == p # <<>> /\ p[1] = "/"
join(base, p) == IF is_absolute(p) THEN p ELSE base \o p

\* env::var("CARGO_MANIFEST_DIR")
root == <<"/", "proj">>

-----------------------------------------------------------------------------
(* config.rs: statics *)

CONFIG_FILE_NAME == <<"askama.toml">>
DEFAULT_SYNTAX_NAME == "default"
DEFAULT_ESCAPERS ==
    << <<{"html", "htm", "xml"}, "::askama::Html">>,
       <<{"md", "none", "txt", "yml", ""}, "::askama::Text">>,
       <<{"j2", "jinja", "jinja2"}, "::askama::Html">> >>

WhitespaceHandling == {"Preserve", "Suppress", "Minimize"}
WhitespaceHandling_default == "Preserve"

-----------------------------------------------------------------------------
(* config.rs: RawConfig.  A document text is empty, or not valid TOML for    *)
(* RawConfig, or the TOML rendering of a document doc.                       *)

EmptyText == [kind |-> "empty", doc |-> <<>>]
InvalidText == [kind |-> "invalid", doc |-> <<>>]
TomlText(doc) == [kind |-> "toml", doc |-> doc]

RawConfig_default == [general |-> None, syntax |-> None, escaper |-> None]

\* serde: General.whitespace is #[serde(default)], every other key an Option
General_deserialize(g) ==
    [dirs           |-> g.dirs,
     default_syntax |-> g.default_syntax,
     whitespace     |-> unwrap_or(g.whitespace, WhitespaceHandling_default)]

RawConfig_from_toml_str(cfg_config, text) ==
    IF ~cfg_config THEN Err(<<"TOML support not available">>)
    ELSE IF text.kind # "toml" THEN Err(<<"invalid TOML in", CONFIG_FILE_NAME>>)
    ELSE Ok([general |-> IF text.doc.general = None THEN None
                         ELSE Some(General_deserialize(text.doc.general[1])),
             syntax  |-> text.doc.syntax,
             escaper |-> text.doc.escaper])

-----------------------------------------------------------------------------
(* config.rs: Config::new *)

str_set(vals) == {vals[i] : i \in DOMAIN vals}

BTreeMap_insert(m, k, v) ==
    [x \in (DOMAIN m) \cup {k} |-> IF x = k THEN v ELSE m[x]]

\* slip: the default search path is the project root itself
Config_general_slip(general) ==
    LET default_dirs == <<root>>
    IN  IF general # None
        THEN [dirs |-> IF general[1].dirs = None THEN default_dirs
                       ELSE [i \in DOMAIN general[1].dirs[1] |->
                                join(root, general[1].dirs[1][i])],
              default_syntax |->
                  unwrap_or(general[1].default_syntax, DEFAULT_SYNTAX_NAME),
              whitespace |-> general[1].whitespace]
        ELSE [dirs |-> default_dirs,
              default_syntax |-> DEFAULT_SYNTAX_NAME,
              whitespace |-> WhitespaceHandling_default]

\* lines 34-51: (dirs, default_syntax, whitespace)
Config_general(general) ==
    LET default_dirs == <<join(root, <<"templates">>)>>
    IN  IF general # None
        THEN [dirs |-> IF general[1].dirs = None THEN default_dirs
                       ELSE [i \in DOMAIN general[1].dirs[1] |->
                                join(root, general[1].dirs[1][i])],
              default_syntax |->
                  unwrap_or(general[1].default_syntax, DEFAULT_SYNTAX_NAME),
              whitespace |-> general[1].whitespace]
        ELSE [dirs |-> default_dirs,
              default_syntax |-> DEFAULT_SYNTAX_NAME,
              whitespace |-> WhitespaceHandling_default]

\* slip: the value insert() returns is not looked at, a later entry replaces
\* an earlier one of the same name
RECURSIVE Config_syntaxes_slip(_, _)
Config_syntaxes_slip(syntaxes, raw_syntaxes) ==
    IF raw_syntaxes = <<>> THEN Ok(syntaxes)
    ELSE LET raw  == Head(raw_syntaxes)
             syn  == Syntax_try_from(raw)
         IN  IF ~syn.ok THEN Err(syn.err)
             ELSE Config_syntaxes_slip(
                      BTreeMap_insert(syntaxes, raw.name, syn.val),
                      Tail(raw_syntaxes))

\* lines 53-64: validate each entry, then insert it; a name already present ends
\* the loop with an error
RECURSIVE Config_syntaxes(_, _)
Config_syntaxes(syntaxes, raw_syntaxes) ==
    IF raw_syntaxes = <<>> THEN Ok(syntaxes)
    ELSE LET raw  == Head(raw_syntaxes)
             name == raw.name
             syn  == Syntax_try_from(raw)
         IN  IF ~syn.ok THEN Err(syn.err)
             ELSE IF name \in DOMAIN syntaxes
             THEN Err(<<"syntax is already defined", name>>)
             ELSE Config_syntaxes(BTreeMap_insert(syntaxes, name, syn.val),
                                  Tail(raw_syntaxes))

\* slip: the built-in rules are pushed before the configured ones
Config_escapers_slip(raw_escaper) ==
    LET configured == unwrap_or(raw_escaper, <<>>)
    IN  DEFAULT_ESCAPERS \o
        [i \in DOMAIN configured |->
            <<str_set(configured[i].extensions), configured[i].path>>]

\* lines 70-85
Config_escapers(raw_escaper) ==
    LET configured == unwrap_or(raw_escaper, <<>>)
    IN  [i \in DOMAIN configured |->
            <<str_set(configured[i].extensions), configured[i].path>>]
        \o DEFAULT_ESCAPERS

\* slip: the default syntax is never looked up
Config_default_syntax_unchecked(syntaxes, default_syntax) == TRUE

\* lines 66-68
Config_default_syntax_known(syntaxes, default_syntax) ==
    default_syntax \in DOMAIN syntaxes

Config_new(cfg_config, text) ==
    LET raw == IF text.kind = "empty" THEN Ok(RawConfig_default)
               ELSE RawConfig_from_toml_str(cfg_config, text)
    IN  IF ~raw.ok THEN Err(raw.err)
        ELSE
        LET general  == Config_general(raw.val.general)
            seeded   == [n \in {DEFAULT_SYNTAX_NAME} |-> Syntax_default]
            syntaxes == Config_syntaxes(seeded, unwrap_or(raw.val.syntax, <<>>))
        IN  IF ~syntaxes.ok THEN Err(syntaxes.err)
            ELSE IF ~Config_default_syntax_known(syntaxes.val,
                                                 general.default_syntax)
            THEN Err(<<"default syntax not found", general.default_syntax>>)
            ELSE Ok([dirs           |-> general.dirs,
                     syntaxes       |-> syntaxes.val,
                     default_syntax |-> general.default_syntax,
                     escapers       |-> Config_escapers(raw.val.escaper),
                     whitespace     |-> general.whitespace])

-----------------------------------------------------------------------------
(* Inputs of Config::new *)

SeqsUpTo(S, n) == UNION {[1..k -> S] : k \in 0..n}

SyntaxNames == {"default", "foo", "bar"}

NoOverride ==
    [block_start |-> None, block_end |-> None, expr_start |-> None,
     expr_end |-> None, comment_start |-> None, comment_end |-> None]

\* nothing overridden; block_start = "{<"; block_end = "}" (one byte);
\* block_start = "<<" (no byte in common with "{#" and "{{")
DelimOverrides ==
    {NoOverride,
     [NoOverride EXCEPT !.block_start = Some(<<"{", "<">>)],
     [NoOverride EXCEPT !.block_end = Some(<<"}">>)],
     [NoOverride EXCEPT !.block_start = Some(<<"<", "<">>)]}

Named(name, o) ==
    [name          |-> name,
     block_start   |-> o.block_start,
     block_end     |-> o.block_end,
     expr_start    |-> o.expr_start,
     expr_end      |-> o.expr_end,
     comment_start |-> o.comment_start,
     comment_end   |-> o.comment_end]

SyntaxEntries == {Named(n, o) : n \in SyntaxNames, o \in DelimOverrides}

DirNames == {<<"tpl">>, <<"/", "abs">>}

EscaperEntries ==
    [path : {"::askama::Js", "::askama::Text"},
     extensions : {<<"js">>, <<"html", "js", "js">>}]

NoGeneral == [dirs |-> None, default_syntax |-> None, whitespace |-> None]

\* documents that vary the default syntax and the syntax list
SyntaxDocs ==
    [general : Opt({[NoGeneral EXCEPT !.default_syntax = d] :
                        d \in Opt(SyntaxNames)}),
     syntax  : Opt(SeqsUpTo(SyntaxEntries, MaxSyntaxes)),
     escaper : {None}]

\* documents that vary the escaper list
EscaperDocs ==
    [general : {None},
     syntax  : {None, Some(<<Named("foo", NoOverride)>>)},
     escaper : Opt(SeqsUpTo(EscaperEntries, MaxEscapers))]

\* documents that vary the general section
GeneralDocs ==
    [general : Opt([dirs : Opt(SeqsUpTo(DirNames, MaxDirs)),
                    default_syntax : {None, Some("default")},
                    whitespace : Opt(WhitespaceHandling)]),
     syntax  : {None},
     escaper : {None, Some(<<[path |-> "::askama::Js",
                              extensions |-> <<"js">>]>>)}]

TomlDocs == SyntaxDocs \cup EscaperDocs \cup GeneralDocs

Texts == {EmptyText, InvalidText} \cup {TomlText(d) : d \in TomlDocs}

-----------------------------------------------------------------------------
(* config.rs: Config::find_template *)

exists(files, p) == p \in DOMAIN files

\* Path::file_name is None for an empty path, the root, and a path ending in ..
has_file_name(p) == p # <<>> /\ p[Len(p)] \notin {"/", ".."}

\* Path::with_file_name: set_file_name pops the file name, if any, then pushes
with_file_name(p, file_name) ==
    join(IF has_file_name(p) THEN SubSeq(p, 1, Len(p) - 1) ELSE p, file_name)

\* slip: the last directory that has the file wins
RECURSIVE Config_find_rooted_slip(_, _, _)
Config_find_rooted_slip(dirs, name, files) ==
    IF dirs = <<>> THEN None
    ELSE LET rooted == join(dirs[Len(dirs)], name)
         IN  IF exists(files, rooted) THEN Some(rooted)
             ELSE Config_find_rooted_slip(SubSeq(dirs, 1, Len(dirs) - 1),
                                          name, files)

\* lines 108-113
RECURSIVE Config_find_rooted(_, _, _)
Config_find_rooted(dirs, name, files) ==
    IF dirs = <<>> THEN None
    ELSE LET rooted == join(Head(dirs), name)
         IN  IF exists(files, rooted) THEN Some(rooted)
             ELSE Config_find_rooted(Tail(dirs), name, files)

Config_find_template(self, name, start, files) ==
    IF start # None /\ exists(files, with_file_name(start[1], name))
    THEN Ok(with_file_name(start[1], name))
    ELSE LET rooted == Config_find_rooted(self.dirs, name, files)
         IN  IF rooted # None THEN Ok(rooted[1])
             ELSE Err(<<"template not found in directories", name, self.dirs>>)

-----------------------------------------------------------------------------
(* Inputs of Config::find_template *)

TemplateNames == {<<"a.html">>, <<"sub", "b.html">>}

\* a caller inside a search-path directory and one outside of all of them
CallerFiles == {<<"/", "proj", "tpl", "x.html">>,
                <<"/", "proj", "other", "sub", "c.html">>}

DirDocs ==
    {[general |-> Some([NoGeneral EXCEPT !.dirs = d]),
      syntax |-> None, escaper |-> None] :
        d \in Opt(SeqsUpTo(DirNames, MaxDirs))}

\* the configurations Config::new returns for the documents of DirDocs
DirConfigs == {Config_new(TRUE, TomlText(d)) : d \in DirDocs}

SearchDirs == {join(root, <<"templates">>)} \cup {join(root, d) : d \in DirNames}

CandidateFiles ==
    {join(d, n) : d \in SearchDirs, n \in TemplateNames}
        \cup {with_file_name(c, n) : c \in CallerFiles, n \in TemplateNames}

TemplateTrees == UNION {[F -> {"template"}] : F \in SUBSET CandidateFiles}

-----------------------------------------------------------------------------
(* config.rs: read_config_file *)

Unreadable == [kind |-> "unreadable", doc |-> <<>>]

read_config_file(config_path, files) ==
    LET filename == IF config_path # None THEN join(root, config_path[1])
                    ELSE join(root, CONFIG_FILE_NAME)
    IN  IF exists(files, filename)
        THEN IF files[filename] = Unreadable
             THEN Err(<<"unable to read", filename>>)
             ELSE Ok(files[filename])
        ELSE IF config_path # None THEN Err(<<"does not exist", root>>)
        ELSE Ok(EmptyText)

-----------------------------------------------------------------------------
(* Inputs of derive_template *)

CustomConfig == <<"custom.toml">>

WhitespaceDoc(w) ==
    [general |-> Some([NoGeneral EXCEPT !.whitespace = w]),
     syntax |-> None, escaper |-> None]

\* contents of a configuration file: empty; not TOML; a general section with
\* and without a whitespace key; a default_syntax that is not declared
ConfigFileTexts ==
    {EmptyText, InvalidText,
     TomlText(WhitespaceDoc(Some("Suppress"))),
     TomlText(WhitespaceDoc(Some("Minimize"))),
     TomlText(WhitespaceDoc(None)),
     TomlText([general |-> Some([NoGeneral EXCEPT !.default_syntax = Some("foo")]),
               syntax |-> None, escaper |-> None])}

ConfigFiles == {join(root, CONFIG_FILE_NAME), join(root, CustomConfig)}

\* no configuration file, or one of the two with some content
ConfigTrees ==
    {<<>>} \cup
    UNION {[{f} -> ConfigFileTexts \cup {Unreadable}] : f \in ConfigFiles}

PrintModes == {"None", "Ast", "Code", "All"}
BlockNames == {"content"}
TplRoot == <<"/", "proj", "templates", "a.html">>
TplBase == <<"/", "proj", "templates", "base.html">>

\* what TemplateArgs::new can read off the template() attribute
TemplateArgsValues ==
    [config_path : Opt({CustomConfig}),
     whitespace  : Opt(WhitespaceHandling),
     block       : Opt(BlockNames),
     print       : PrintModes]

TemplateArgs_fallback ==
    [config_path |-> None, whitespace |-> None, block |-> None, print |-> "None"]

\* TemplateInput::new keeps the block selector and the print mode of the
\* arguments and names the root template
TemplateInput_of(args) ==
    [path |-> TplRoot, block |-> args.block, print |-> args.print]

\* the template sets find_used_templates can return: the root template alone,
\* or with a template it extends
TemplateSets == {[p \in P |-> "parsed"] : P \in {{TplRoot}, {TplRoot, TplBase}}}

\* Context::new fails or returns the blocks and the extends target of a file
ContextOutcomes(p) ==
    {Err(<<"context", p>>)} \cup
    {Ok([blocks |-> b, extends |-> e]) :
        b \in SUBSET BlockNames,
        e \in IF p = TplRoot THEN Opt({TplBase}) ELSE {None}}

-----------------------------------------------------------------------------
(* lib.rs: build_template.  A call of another module of the crate returns    *)
(* what that module decides: any of its outcomes.                            *)

Call(by, fn, r) == [by |-> by, fn |-> fn, ok |-> r.ok, err |-> r.err]

\* line 58
BT_TemplateArgs ==
    /\ pc = "bt_args"
    /\ \E r \in {Err(<<"invalid template attribute">>)} \cup
                {Ok(a) : a \in TemplateArgsValues} :
          /\ template_args' = r
          /\ calls' = Append(calls, Call("build_template", "TemplateArgs::new", r))
          /\ IF r.ok THEN pc' = "bt_read" /\ built' = built
                     ELSE pc' = "bt_returned" /\ built' = Err(r.err)
    /\ UNCHANGED <<envVars, infoVars, synVars, cfgVars, findVars, input, templates,
                   contexts, heritage, stderr, deriveVars>>

\* lines 59-60
BT_ReadConfigFile ==
    /\ pc = "bt_read"
    /\ LET r == read_config_file(template_args.val.config_path, fs)
       IN  /\ calls' = Append(calls, Call("build_template", "read_config_file", r))
           /\ IF r.ok THEN pc' = "bt_config" /\ s' = r.val /\ built' = built
                      ELSE pc' = "bt_returned" /\ s' = s /\ built' = Err(r.err)
    /\ UNCHANGED <<envVars, infoVars, synVars, config, findVars, template_args, input,
                   templates, contexts, heritage, stderr, deriveVars>>

\* slip: the error of Config::new is dropped and the function goes on
BT_Config_slip ==
    /\ pc = "bt_config"
    /\ LET r == Config_new(feature_config, s)
       IN  /\ config' = r
           /\ calls' = Append(calls, Call("build_template", "Config::new", r))
           /\ pc' = "bt_input"
           /\ built' = built
    /\ UNCHANGED <<envVars, infoVars, synVars, s, findVars, template_args, input,
                   templates, contexts, heritage, stderr, deriveVars>>

\* line 61: the call hands over config_path and template_args.whitespace;
\* Config::new of config.rs has the one parameter s
BT_Config ==
    /\ pc = "bt_config"
    /\ LET r == Config_new(feature_config, s)
       IN  /\ config' = r
           /\ calls' = Append(calls, Call("build_template", "Config::new", r))
           /\ IF r.ok THEN pc' = "bt_input" /\ built' = built
                      ELSE pc' = "bt_returned" /\ built' = Err(r.err)
    /\ UNCHANGED <<envVars, infoVars, synVars, s, findVars, template_args, input,
                   templates, contexts, heritage, stderr, deriveVars>>

\* line 62
BT_TemplateInput ==
    /\ pc = "bt_input"
    /\ \E r \in {Err(<<"invalid template input">>),
                Ok(TemplateInput_of(template_args.val))} :
          /\ input' = r
          /\ calls' = Append(calls, Call("build_template", "TemplateInput::new", r))
          /\ IF r.ok THEN pc' = "bt_find_used" /\ built' = built
                     ELSE pc' = "bt_returned" /\ built' = Err(r.err)
    /\ UNCHANGED <<envVars, infoVars, synVars, cfgVars, findVars, template_args, templates,
                   contexts, heritage, stderr, deriveVars>>

\* lines 64-65
BT_FindUsedTemplates ==
    /\ pc = "bt_find_used"
    /\ \E r \in {Err(<<"template not found">>)} \cup
                {Ok(m) : m \in TemplateSets} :
          /\ templates' = r
          /\ calls' = Append(calls,
                             Call("build_template", "find_used_templates", r))
          /\ IF r.ok THEN pc' = "bt_contexts" /\ built' = built
                     ELSE pc' = "bt_returned" /\ built' = Err(r.err)
    /\ UNCHANGED <<envVars, infoVars, synVars, cfgVars, findVars, template_args, input,
                   contexts, heritage, stderr, deriveVars>>

\* lines 67-70: the HashMap is walked in no particular order and the first
\* Context::new that fails ends the function: any of the failing ones
BT_Contexts ==
    /\ pc = "bt_contexts"
    /\ \E out \in [DOMAIN templates.val ->
                     UNION {ContextOutcomes(p) : p \in DOMAIN templates.val}] :
          /\ \A p \in DOMAIN templates.val : out[p] \in ContextOutcomes(p)
          /\ LET failed == {p \in DOMAIN templates.val : ~out[p].ok}
             IN  IF failed = {}
                 THEN /\ contexts' = [p \in DOMAIN templates.val |-> out[p].val]
                      /\ calls' = Append(calls,
                            Call("build_template", "Context::new", Ok(<<>>)))
                      /\ pc' = "bt_heritage"
                      /\ built' = built
                 ELSE \E p \in failed :
                      /\ contexts' = contexts
                      /\ calls' = Append(calls,
                            Call("build_template", "Context::new", out[p]))
                      /\ pc' = "bt_returned"
                      /\ built' = Err(out[p].err)
    /\ UNCHANGED <<envVars, infoVars, synVars, cfgVars, findVars, template_args, input,
                   templates, heritage, stderr, deriveVars>>

\* slip: only the blocks of the root template count, not its extends
has_heritage_slip(ctx) == ctx.blocks # {}

\* line 73
has_heritage(ctx) == ctx.blocks # {} \/ ctx.extends # None

\* the block names a merged graph can hold: those of the root template and
\* those of the templates it extends
HeritageBlockNames == BlockNames \cup {"footer"}

\* lines 72-82: Heritage::new cannot fail (line 74 binds its graph); a
\* requested block the graph does not hold ends the function
BT_Heritage ==
    /\ pc = "bt_heritage"
    /\ has_heritage(contexts[input.val.path])
    /\ \E blocks \in SUBSET HeritageBlockNames :
          LET r == IF input.val.block # None /\ input.val.block[1] \notin blocks
                   THEN Err(<<"cannot find block", input.val.block[1]>>)
                   ELSE Ok(Some([blocks |-> blocks]))
          IN  /\ calls' = Append(calls, Call("build_template", "Heritage::new", r))
              /\ heritage' = Some([blocks |-> blocks])
              /\ IF r.ok
                 THEN pc' = "bt_generate" /\ built' = built
                 ELSE pc' = "bt_returned" /\ built' = Err(r.err)
    /\ UNCHANGED <<envVars, infoVars, synVars, cfgVars, findVars, template_args, input,
                   templates, contexts, stderr, deriveVars>>

\* lines 83-85
BT_NoHeritage ==
    /\ pc = "bt_heritage"
    /\ ~has_heritage(contexts[input.val.path])
    /\ heritage' = None
    /\ pc' = "bt_generate"
    /\ UNCHANGED <<envVars, infoVars, synVars, cfgVars, findVars, template_args, input,
                   templates, contexts, stderr, built, calls, deriveVars>>

\* lines 87-96
BT_Generate ==
    /\ pc = "bt_generate"
    /\ \E r \in {Err(<<"generator">>), Ok(<<"impl", heritage>>)} :
          LET ast  == IF input.val.print \in {"Ast", "All"}
                      THEN <<"nodes">> ELSE <<>>
              code == IF r.ok /\ input.val.print \in {"Code", "All"}
                      THEN <<"code">> ELSE <<>>
          IN  /\ stderr' = stderr \o ast \o code
              /\ calls' = Append(calls,
                                 Call("build_template", "Generator::build", r))
              /\ built' = r
              /\ pc' = "bt_returned"
    /\ UNCHANGED <<envVars, infoVars, synVars, cfgVars, findVars, template_args, input,
                   templates, contexts, heritage, deriveVars>>

-----------------------------------------------------------------------------
(* lib.rs: derive_template and build_skeleton *)

\* lines 27-28
Derive_Ok ==
    /\ pc = "bt_returned"
    /\ built.ok
    /\ output' = <<[kind |-> "source", of |-> built.val]>>
    /\ pc' = "derived"
    /\ UNCHANGED <<envVars, infoVars, synVars, cfgVars, findVars, buildVars, calls,
                   sk_config, sk_input, skeleton>>

\* lines 29-30
Derive_Err ==
    /\ pc = "bt_returned"
    /\ ~built.ok
    /\ output' = <<[kind |-> "compile_error", of |-> built.err]>>
    /\ pc' = "sk_config"
    /\ UNCHANGED <<envVars, infoVars, synVars, cfgVars, findVars, buildVars, calls,
                   sk_config, sk_input, skeleton>>

\* lines 41-42
SK_Config ==
    /\ pc = "sk_config"
    /\ LET r == Config_new(feature_config, EmptyText)
       IN  /\ sk_config' = r
           /\ calls' = Append(calls, Call("build_skeleton", "Config::new", r))
           /\ IF r.ok THEN pc' = "sk_input" /\ skeleton' = skeleton
                      ELSE pc' = "sk_returned" /\ skeleton' = Err(r.err)
    /\ UNCHANGED <<envVars, infoVars, synVars, cfgVars, findVars, buildVars, sk_input,
                   output>>

\* line 43
SK_TemplateInput ==
    /\ pc = "sk_input"
    /\ \E r \in {Err(<<"invalid template input">>),
                Ok(TemplateInput_of(TemplateArgs_fallback))} :
          /\ sk_input' = r
          /\ calls' = Append(calls, Call("build_skeleton", "TemplateInput::new", r))
          /\ IF r.ok THEN pc' = "sk_generate" /\ skeleton' = skeleton
                     ELSE pc' = "sk_returned" /\ skeleton' = Err(r.err)
    /\ UNCHANGED <<envVars, infoVars, synVars, cfgVars, findVars, buildVars, sk_config,
                   output>>

\* lines 44-47
SK_Generate ==
    /\ pc = "sk_generate"
    /\ \E r \in {Err(<<"generator">>), Ok(<<"impl", None>>)} :
          /\ skeleton' = r
          /\ calls' = Append(calls, Call("build_skeleton", "Generator::build", r))
          /\ pc' = "sk_returned"
    /\ UNCHANGED <<envVars, infoVars, synVars, cfgVars, findVars, buildVars, sk_config,
                   sk_input, output>>

\* slip: the error of build_skeleton is emitted as well
Derive_Skeleton_slip ==
    /\ pc = "sk_returned"
    /\ output' = IF skeleton.ok
                 THEN Append(output, [kind |-> "source", of |-> skeleton.val])
                 ELSE Append(output, [kind |-> "compile_error",
                                      of |-> skeleton.err])
    /\ pc' = "derived"
    /\ UNCHANGED <<envVars, infoVars, synVars, cfgVars, findVars, buildVars, calls,
                   sk_config, sk_input, skeleton>>

\* lines 31-35
Derive_Skeleton ==
    /\ pc = "sk_returned"
    /\ output' = IF skeleton.ok
                 THEN Append(output, [kind |-> "source", of |-> skeleton.val])
                 ELSE output
    /\ pc' = "derived"
    /\ UNCHANGED <<envVars, infoVars, synVars, cfgVars, findVars, buildVars, calls,
                   sk_config, sk_input, skeleton>>

-----------------------------------------------------------------------------
(* lib.rs: FileInfo.  A text is a sequence of one-character strings.  What  *)
(* fmt writes is the sequence of the pieces of its format string and of the *)
(* values put between them.                                                 *)

SourceChars == {"a", "b", "\n"}
SourceTexts == UNION {[1..n -> SourceChars] : n \in 0..MaxSourceLen}

\* the slices of a text: what a node of its parse can hold
SubTexts(src) ==
    {SubSeq(src, i, j) : i \in 1..(Len(src) + 1), j \in 0..Len(src)}

FilePaths == {TplRoot, <<"/", "elsewhere", "b.html">>}

\* std::env::current_dir()
CurrentDirs ==
    {Ok(root), Ok(<<"/", "proj", "templates">>), Err(<<"current_dir">>)}

\* lines 163-167
FileInfos ==
    {fi \in [path        : FilePaths,
             source      : Opt(SourceTexts),
             node_source : Opt(SourceTexts)] :
        (fi.source # None /\ fi.node_source # None) =>
            fi.node_source[1] \in SubTexts(fi.source[1])}

\* the path with the components it shares with the working directory removed
strip_common(base, p) ==
    IF Len(base) <= Len(p) /\ SubSeq(p, 1, Len(base)) = base
    THEN SubSeq(p, Len(base) + 1, Len(p))
    ELSE p

\* the first place of src where node stands, counted from 0
first_offset(src, node) ==
    CHOOSE k \in 0..(Len(src) - Len(node)) :
        /\ SubSeq(src, k + 1, k + Len(node)) = node
        /\ \A l \in 0..(k - 1) : SubSeq(src, l + 1, l + Len(node)) # node

\* the zero-based row and column of the place where node stands in src, and
\* the text from there on
generate_error_info(src, node) ==
    LET offset == first_offset(src, node)
        breaks == {i \in 1..offset : src[i] = "\n"}
        line_start == IF breaks = {} THEN 0
                      ELSE CHOOSE i \in breaks : \A l \in breaks : l <= i
    IN  [row          |-> Cardinality(breaks),
         column       |-> offset - line_start,
         source_after |-> SubSeq(src, offset + 1, Len(src))]

\* the renderings generate_error_info can give of the path it is handed
error_info_paths(dir, p) ==
    {p} \cup (IF dir.ok THEN {strip_common(dir.val, p)} ELSE {})

\* lines 186-196: the row is written one higher, the column as it is
FileInfo_fmt_located(fi, file_path) ==
    LET info == generate_error_info(fi.source[1], fi.node_source[1])
    IN  <<"\n  --> ", file_path, ":", info.row + 1, ":", info.column, "\n",
          info.source_after>>

\* lines 197-203
FileInfo_fmt_path(fi, dir) ==
    <<"\n --> ", IF dir.ok THEN strip_common(dir.val, fi.path) ELSE fi.path>>

\* lines 185-204
FileInfo_fmt ==
    /\ pc = "fmt"
    /\ IF file_info.source # None /\ file_info.node_source # None
       THEN \E file_path \in error_info_paths(cwd, file_info.path) :
               rendered' = FileInfo_fmt_located(file_info, file_path)
       ELSE rendered' = FileInfo_fmt_path(file_info, cwd)
    /\ pc' = "done_fmt"
    /\ UNCHANGED <<envVars, synVars, cfgVars, findVars, buildVars, calls,
                   deriveVars, cwd, file_info>>

-----------------------------------------------------------------------------
(* Specifications *)

SynIdle == raw_s = <<>> /\ syntax = Idle
CfgIdle == s = <<>> /\ config = Idle
FindIdle == path = <<>> /\ start_at = None /\ found = Idle
BuildIdle ==
    /\ template_args = Idle
    /\ input = Idle
    /\ templates = Idle
    /\ contexts = <<>>
    /\ heritage = None
    /\ stderr = <<>>
    /\ built = Idle
    /\ calls = <<>>
DeriveIdle ==
    /\ sk_config = Idle
    /\ sk_input = Idle
    /\ skeleton = Idle
    /\ output = <<>>

InfoIdle == cwd = Idle /\ file_info = <<>> /\ rendered = <<>>

\* Syntax::try_from on a RawSyntax
InitSyntax ==
    /\ pc = "try_from"
    /\ feature_config = TRUE
    /\ fs = <<>>
    /\ raw_s \in RawSyntaxes({"foo"})
    /\ syntax = Idle
    /\ CfgIdle /\ FindIdle /\ BuildIdle /\ DeriveIdle /\ InfoIdle

TryFrom ==
    /\ pc = "try_from"
    /\ syntax' = Syntax_try_from(raw_s)
    /\ pc' = "done_try_from"
    /\ UNCHANGED <<envVars, infoVars, raw_s, cfgVars, findVars, buildVars, calls,
                   deriveVars>>

\* Config::new on a document text
InitConfig ==
    /\ pc = "Config_new"
    /\ feature_config \in BOOLEAN
    /\ fs = <<>>
    /\ s \in Texts
    /\ config = Idle
    /\ SynIdle /\ FindIdle /\ BuildIdle /\ DeriveIdle /\ InfoIdle

ConfigNew ==
    /\ pc = "Config_new"
    /\ config' = Config_new(feature_config, s)
    /\ pc' = "done_Config_new"
    /\ UNCHANGED <<envVars, infoVars, synVars, s, findVars, buildVars, calls, deriveVars>>

\* Config::find_template of a Configuration, over a template tree
InitFind ==
    /\ pc = "find_template"
    /\ feature_config = TRUE
    /\ fs \in TemplateTrees
    /\ s = <<>>
    /\ config \in DirConfigs
    /\ SynIdle /\ FindIdle /\ BuildIdle /\ DeriveIdle /\ InfoIdle

FindTemplate ==
    /\ pc = "find_template"
    /\ \E name \in TemplateNames, start \in Opt(CallerFiles) :
          /\ path' = name
          /\ start_at' = start
          /\ found' = Config_find_template(config.val, name, start, fs)
    /\ pc' = "done_find_template"
    /\ UNCHANGED <<envVars, infoVars, synVars, cfgVars, buildVars, calls, deriveVars>>

\* derive_template on a declaration, over a project with a configuration file
Init ==
    /\ pc = "bt_args"
    /\ feature_config \in BOOLEAN
    /\ fs \in ConfigTrees
    /\ SynIdle /\ CfgIdle /\ FindIdle /\ BuildIdle /\ DeriveIdle /\ InfoIdle

Next ==
    \/ BT_TemplateArgs
    \/ BT_ReadConfigFile
    \/ BT_Config
    \/ BT_TemplateInput
    \/ BT_FindUsedTemplates
    \/ BT_Contexts
    \/ BT_Heritage
    \/ BT_NoHeritage
    \/ BT_Generate
    \/ Derive_Ok
    \/ Derive_Err
    \/ SK_Config
    \/ SK_TemplateInput
    \/ SK_Generate
    \/ Derive_Skeleton

\* Display of a FileInfo
InitFileInfo ==
    /\ pc = "fmt"
    /\ feature_config = TRUE
    /\ fs = <<>>
    /\ cwd \in CurrentDirs
    /\ file_info \in FileInfos
    /\ rendered = <<>>
    /\ SynIdle /\ CfgIdle /\ FindIdle /\ BuildIdle /\ DeriveIdle

\* the functions of config.rs, each called once on every bounded input
SpecConfig ==
    (InitSyntax \/ InitConfig \/ InitFind)
        /\ [][TryFrom \/ ConfigNew \/ FindTemplate]_vars

\* derive_template of lib.rs
Spec == Init /\ [][Next]_vars

\* the Display of FileInfo of lib.rs, on every bounded FileInfo
SpecFileInfo == InitFileInfo /\ [][FileInfo_fmt]_vars

-----------------------------------------------------------------------------
(* Properties.  Their vocabulary is stated without the operators above.    *)

Canonical ==
    [block_start   |-> <<"{", "%">>,
     block_end     |-> <<"%", "}">>,
     expr_start    |-> <<"{", "{">>,
     expr_end      |-> <<"}", "}">>,
     comment_start |-> <<"{", "#">>,
     comment_end   |-> <<"#", "}">>]

\* the delimiter an entry asks for: its own value, or the canonical one
Resulting(raw, f) == IF raw[f] = <<>> THEN Canonical[f] ELSE raw[f][1]

AllLengthTwo(raw) == \A f \in SyntaxFields : Len(Resulting(raw, f)) = 2

OpenersShare(b, c, e, i) == b[i] = c[i] /\ c[i] = e[i]

Disambiguated(b, c, e) == OpenersShare(b, c, e, 1) \/ OpenersShare(b, c, e, 2)

EntryValid(raw) ==
    /\ AllLengthTwo(raw)
    /\ Disambiguated(Resulting(raw, "block_start"),
                     Resulting(raw, "comment_start"),
                     Resulting(raw, "expr_start"))

TriedFrom == pc = "done_try_from"
Resolved == pc = "done_Config_new"
Parses == s.kind = "toml" /\ feature_config

\* the syntax list and the escaper list the document text declares
DeclaredSyntaxes == IF s.kind = "toml" /\ s.doc.syntax # <<>>
                    THEN s.doc.syntax[1] ELSE <<>>
DeclaredEscapers == IF s.kind = "toml" /\ s.doc.escaper # <<>>
                    THEN s.doc.escaper[1] ELSE <<>>

\* general.default_syntax names a syntax that is neither built in nor declared
DanglingDefault ==
    /\ s.kind = "toml"
    /\ s.doc.general # <<>>
    /\ s.doc.general[1].default_syntax # <<>>
    /\ s.doc.general[1].default_syntax[1] \notin
           {"default"} \cup
           {DeclaredSyntaxes[i].name : i \in DOMAIN DeclaredSyntaxes}

Collides(list, j) ==
    \/ list[j].name = "default"
    \/ \E i \in 1..(j - 1) : list[i].name = list[j].name

HasCollision(list) == \E j \in DOMAIN list : Collides(list, j)

FirstCollision(list) ==
    CHOOSE j \in DOMAIN list :
        Collides(list, j) /\ \A k \in 1..(j - 1) : ~Collides(list, k)

SyntaxListAccepted(list) ==
    /\ ~HasCollision(list)
    /\ \A i \in DOMAIN list : EntryValid(list[i])

-----------------------------------------------------------------------------
\* C1 as stated: a returned Configuration's default_syntax is a key of its
\* syntaxes, and a document whose general.default_syntax names a syntax that is
\* neither "default" nor declared fails with 'default syntax "<name>" not found'.
C1_Original ==
    Resolved =>
        /\ config.ok => config.val.default_syntax \in DOMAIN config.val.syntaxes
        /\ (Parses /\ DanglingDefault) =>
              /\ ~config.ok
              /\ config.err[1] = "default syntax not found"

\* C1 amended: a returned Configuration's default_syntax is a key of its
\* syntaxes; a document whose general.default_syntax names a syntax that is
\* neither "default" nor declared never yields a Configuration, and the error is
\* 'default syntax "<name>" not found' when the document parses and its syntax
\* list is accepted (every entry validates, no name repeated or "default").
C1_DefaultSyntaxKnown ==
    Resolved =>
        /\ config.ok => config.val.default_syntax \in DOMAIN config.val.syntaxes
        /\ DanglingDefault =>
              /\ ~config.ok
              /\ (Parses /\ SyntaxListAccepted(DeclaredSyntaxes)) =>
                    config.err = <<"default syntax not found",
                                   s.doc.general[1].default_syntax[1]>>

C1_Witness ==
    /\ Resolved
    /\ Parses
    /\ s.doc.general # <<>>
    /\ s.doc.general[1].default_syntax = <<"foo">>
    /\ s.doc.syntax = <<>>
    /\ ~config.ok
    /\ config.err = <<"default syntax not found", "foo">>

\* C2 as stated: a syntax entry named like an earlier entry or like "default"
\* makes resolution fail with 'syntax "<name>" is already defined'; in a
\* returned Configuration the names are unique and "default" is canonical.
C2_Original ==
    Resolved =>
        /\ (Parses /\ HasCollision(DeclaredSyntaxes)) =>
              /\ ~config.ok
              /\ config.err[1] = "syntax is already defined"
        /\ config.ok =>
              /\ ~HasCollision(DeclaredSyntaxes)
              /\ config.val.syntaxes["default"] = Canonical

\* C2 amended: such a document never yields a Configuration, and the error is
\* 'syntax "<name>" is already defined', naming the first colliding entry, when
\* the document parses and every entry up to and including that one validates;
\* in a returned Configuration the keys are "default" and the declared names,
\* each declared once, and "default" holds the canonical delimiters.
C2_DuplicateSyntaxName ==
    Resolved =>
        /\ (s.kind = "toml" /\ HasCollision(DeclaredSyntaxes)) =>
              /\ ~config.ok
              /\ (/\ Parses
                  /\ \A k \in 1..FirstCollision(DeclaredSyntaxes) :
                        EntryValid(DeclaredSyntaxes[k])) =>
                    config.err =
                        <<"syntax is already defined",
                          DeclaredSyntaxes[FirstCollision(DeclaredSyntaxes)].name>>
        /\ config.ok =>
              /\ ~HasCollision(DeclaredSyntaxes)
              /\ DOMAIN config.val.syntaxes =
                    {"default"} \cup
                    {DeclaredSyntaxes[i].name : i \in DOMAIN DeclaredSyntaxes}
              /\ config.val.syntaxes["default"] = Canonical

C2_Witness ==
    /\ Resolved
    /\ Parses
    /\ Len(DeclaredSyntaxes) = 2
    /\ DeclaredSyntaxes[1].name = "foo"
    /\ DeclaredSyntaxes[2].name = "foo"
    /\ DeclaredSyntaxes[1].block_start = <<<<"{", "<">>>>
    /\ ~config.ok
    /\ config.err = <<"syntax is already defined", "foo">>

\* the first rule, in list order, whose extension set holds ext
FirstMatch(escapers, ext) ==
    LET i == CHOOSE k \in DOMAIN escapers :
                 /\ ext \in escapers[k][1]
                 /\ \A j \in 1..(k - 1) : ext \notin escapers[j][1]
    IN  escapers[i][2]

\* C3: the escaper list of a returned Configuration is the declared escaper
\* entries in document order, then the three built-in rules in their fixed
\* order; a first-match lookup of a declared extension yields the escaper of
\* the first declared rule that has it.
C3_EscaperOrder ==
    (Resolved /\ config.ok) =>
        LET user == DeclaredEscapers
            e    == config.val.escapers
            n    == Len(user)
        IN  /\ Len(e) = n + 3
            /\ \A i \in 1..n :
                  /\ e[i][1] = {user[i].extensions[k] :
                                    k \in DOMAIN user[i].extensions}
                  /\ e[i][2] = user[i].path
            /\ e[n + 1] = <<{"html", "htm", "xml"}, "::askama::Html">>
            /\ e[n + 2] = <<{"md", "none", "txt", "yml", ""}, "::askama::Text">>
            /\ e[n + 3] = <<{"j2", "jinja", "jinja2"}, "::askama::Html">>
            /\ \A i \in 1..n : \A k \in DOMAIN user[i].extensions :
                  LET ext == user[i].extensions[k]
                      first == CHOOSE j \in 1..n :
                          /\ \E m \in DOMAIN user[j].extensions :
                                user[j].extensions[m] = ext
                          /\ \A h \in 1..(j - 1) :
                                \A m \in DOMAIN user[h].extensions :
                                    user[h].extensions[m] # ext
                  IN  FirstMatch(e, ext) = user[first].path

C3_Witness ==
    /\ Resolved
    /\ config.ok
    /\ Len(DeclaredEscapers) = 2
    /\ DeclaredEscapers[1].path = "::askama::Js"
    /\ DeclaredEscapers[1].extensions = <<"html", "js", "js">>
    /\ DeclaredEscapers[2].path = "::askama::Text"
    /\ Len(config.val.escapers) = 5
    /\ FirstMatch(config.val.escapers, "html") = "::askama::Js"

\* C4: every delimiter field of a validated entry is the entry's value when
\* the entry has the field and the canonical default of that field when not.
C4_FieldsInherit ==
    /\ (TriedFrom /\ syntax.ok) =>
          \A f \in SyntaxFields : syntax.val[f] = Resulting(raw_s, f)
    /\ (Resolved /\ config.ok) =>
          \A i \in DOMAIN DeclaredSyntaxes : \A f \in SyntaxFields :
              config.val.syntaxes[DeclaredSyntaxes[i].name][f] =
                  Resulting(DeclaredSyntaxes[i], f)

C4_Witness ==
    /\ TriedFrom
    /\ syntax.ok
    /\ raw_s.block_start = <<<<"{", "<">>>>
    /\ raw_s.expr_end = <<>>
    /\ raw_s.comment_end = <<<<"}", "}">>>>
    /\ syntax.val.block_start = <<"{", "<">>
    /\ syntax.val.expr_end = <<"}", "}">>
    /\ syntax.val.comment_start = <<"{", "#">>

\* C5: validation fails with 'length of delimiters must be two' whenever one
\* of the six resulting delimiters has a length other than two, whatever the
\* openers are; every delimiter of every syntax of a returned Configuration has
\* length two.
C5_DelimiterLength ==
    /\ (TriedFrom /\ ~AllLengthTwo(raw_s)) =>
          /\ ~syntax.ok
          /\ syntax.err = <<"length of delimiters must be two">>
    /\ (TriedFrom /\ syntax.ok) =>
          \A f \in SyntaxFields : Len(syntax.val[f]) = 2
    /\ (Resolved /\ config.ok) =>
          \A n \in DOMAIN config.val.syntaxes : \A f \in SyntaxFields :
              Len(config.val.syntaxes[n][f]) = 2

\* a three-byte comment_end with openers that share no byte
C5_Witness ==
    /\ TriedFrom
    /\ raw_s.comment_end = <<<<"}", "}", "}">>>>
    /\ raw_s.block_start = <<<<"<", "<">>>>
    /\ raw_s.expr_start = <<>>
    /\ raw_s.comment_start = <<>>
    /\ raw_s.block_end = <<>>
    /\ raw_s.expr_end = <<>>
    /\ syntax.err = <<"length of delimiters must be two">>

\* C6: with six delimiters of length two, validation succeeds exactly when the
\* three openers share their first byte or share their second byte, and fails
\* with 'bad delimiters ...' otherwise; every syntax of a returned
\* Configuration has such openers.
C6_Disambiguation ==
    /\ (TriedFrom /\ AllLengthTwo(raw_s)) =>
          LET b == Resulting(raw_s, "block_start")
              c == Resulting(raw_s, "comment_start")
              e == Resulting(raw_s, "expr_start")
          IN  /\ syntax.ok <=> Disambiguated(b, c, e)
              /\ ~syntax.ok => syntax.err = <<"bad delimiters", b, c, e>>
    /\ (Resolved /\ config.ok) =>
          \A n \in DOMAIN config.val.syntaxes :
              Disambiguated(config.val.syntaxes[n].block_start,
                            config.val.syntaxes[n].comment_start,
                            config.val.syntaxes[n].expr_start)

\* block and comment openers agree on the first byte, block and expression
\* openers on the second: no position is common to all three
C6_Witness ==
    /\ TriedFrom
    /\ raw_s.block_start = <<<<"{", "<">>>>
    /\ raw_s.comment_start = <<<<"{", "{">>>>
    /\ raw_s.expr_start = <<<<"<", "<">>>>
    /\ AllLengthTwo(raw_s)
    /\ ~syntax.ok
    /\ syntax.err[1] = "bad delimiters"

\* C9: an empty document resolves to the one syntax "default" with the
\* canonical delimiters, default_syntax "default", the search path
\* <<root/templates>>, whitespace Preserve and the three built-in escaper rules.
C9_EmptyDocument ==
    (Resolved /\ s.kind = "empty") =>
        /\ config.ok
        /\ DOMAIN config.val.syntaxes = {"default"}
        /\ config.val.syntaxes["default"] = Canonical
        /\ config.val.default_syntax = "default"
        /\ config.val.dirs = << <<"/", "proj", "templates">> >>
        /\ config.val.whitespace = "Preserve"
        /\ config.val.escapers =
              << <<{"html", "htm", "xml"}, "::askama::Html">>,
                 <<{"md", "none", "txt", "yml", ""}, "::askama::Text">>,
                 <<{"j2", "jinja", "jinja2"}, "::askama::Html">> >>

C9_Witness ==
    /\ Resolved
    /\ s.kind = "empty"
    /\ ~feature_config
    /\ config.ok
    /\ Len(config.val.dirs) = 1

\* the path beside the caller: the caller's directory, then the name
Sibling(caller, name) == SubSeq(caller, 1, Len(caller) - 1) \o name

Located == pc = "done_find_template"

\* C7: find_template returns the sibling of the caller when a caller is given
\* and the sibling exists; otherwise the name under the first search-path
\* directory, in declared order, where it exists; otherwise 'template not
\* found'.  What it returns exists.
C7_Locate ==
    Located =>
        LET dirs     == config.val.dirs
            sibling  == start_at # <<>> /\ Sibling(start_at[1], path) \in DOMAIN fs
            hits     == {i \in DOMAIN dirs : (dirs[i] \o path) \in DOMAIN fs}
        IN  /\ sibling =>
                  found.ok /\ found.val = Sibling(start_at[1], path)
            /\ (~sibling /\ hits # {}) =>
                  /\ found.ok
                  /\ \E i \in hits :
                        /\ \A j \in hits : i <= j
                        /\ found.val = dirs[i] \o path
            /\ (~sibling /\ hits = {}) =>
                  /\ ~found.ok
                  /\ found.err = <<"template not found in directories", path, dirs>>
            /\ found.ok => found.val \in DOMAIN fs

\* the sibling exists, and so does a file of that name in the search path
C7_Witness ==
    /\ Located
    /\ start_at = << <<"/", "proj", "other", "sub", "c.html">> >>
    /\ path = <<"a.html">>
    /\ config.val.dirs = << <<"/", "proj", "templates">> >>
    /\ <<"/", "proj", "templates", "a.html">> \in DOMAIN fs
    /\ <<"/", "proj", "other", "sub", "a.html">> \in DOMAIN fs
    /\ found.ok
    /\ found.val = <<"/", "proj", "other", "sub", "a.html">>

\* C8: the whitespace policy of the Configuration build_template resolves is
\* the override of the template() attribute when there is one, otherwise
\* general.whitespace when the document has it, otherwise Preserve.
C8_WhitespacePrecedence ==
    (template_args.ok /\ config.ok) =>
        config.val.whitespace =
            IF template_args.val.whitespace # <<>>
            THEN template_args.val.whitespace[1]
            ELSE IF /\ s.kind = "toml"
                    /\ s.doc.general # <<>>
                    /\ s.doc.general[1].whitespace # <<>>
            THEN s.doc.general[1].whitespace[1]
            ELSE "Preserve"

\* without an override the resolved policy is general.whitespace when the
\* document has it, otherwise Preserve
C8_WithoutOverride ==
    (template_args.ok /\ config.ok /\ template_args.val.whitespace = <<>>) =>
        config.val.whitespace =
            IF /\ s.kind = "toml"
               /\ s.doc.general # <<>>
               /\ s.doc.general[1].whitespace # <<>>
            THEN s.doc.general[1].whitespace[1]
            ELSE "Preserve"

IsPrimary(c) == c.by = "build_template"
Primary == SelectSeq(calls, IsPrimary)

StageOrder ==
    <<"TemplateArgs::new", "read_config_file", "Config::new",
      "TemplateInput::new", "find_used_templates", "Context::new",
      "Heritage::new", "Generator::build">>

StageIndex(fn) == CHOOSE i \in DOMAIN StageOrder : StageOrder[i] = fn

BuildReturned ==
    pc \in {"bt_returned", "sk_config", "sk_input", "sk_generate",
            "sk_returned", "derived"}

\* C10: the stages of build_template run in the fixed order, each at most
\* once, BuildHeritage being the only one that may be left out; a stage runs
\* only after every earlier one succeeded; build_template returns the error of
\* the stage that failed, and code only when every stage it ran succeeded.
C10_PipelineOrder ==
    LET P == Primary
    IN  /\ Len(P) > 0 => P[1].fn = "TemplateArgs::new"
        /\ \A i \in 1..(Len(P) - 1) :
              /\ P[i].ok
              /\ \/ StageIndex(P[i + 1].fn) = StageIndex(P[i].fn) + 1
                 \/ P[i].fn = "Context::new" /\ P[i + 1].fn = "Generator::build"
        /\ BuildReturned =>
              /\ Len(P) > 0
              /\ built.ok <=> P[Len(P)].ok
              /\ ~built.ok => built.err = P[Len(P)].err
              /\ built.ok => P[Len(P)].fn = "Generator::build"

\* Config::new failed: build_template has returned its error after three calls
C10_Witness ==
    /\ pc = "bt_returned"
    /\ Len(Primary) = 3
    /\ Primary[3].fn = "Config::new"
    /\ ~Primary[3].ok
    /\ ~built.ok
    /\ built.err = <<"default syntax not found", "foo">>

IsFallback(c) == c.by = "build_skeleton"
Fallback == SelectSeq(calls, IsFallback)

InFallback == pc \in {"sk_config", "sk_input", "sk_generate", "sk_returned"}

\* C11: build_skeleton runs only after build_template has returned an error;
\* what derive_template returns after such an error starts with that error,
\* followed by the skeleton when build_skeleton succeeded and by nothing when
\* it failed: the error of build_skeleton is in no output.  After a success
\* the output is the generated code alone and build_skeleton never ran.
C11_FallbackKeepsError ==
    /\ (Len(Fallback) > 0 \/ InFallback) => (BuildReturned /\ ~built.ok)
    /\ \A i \in DOMAIN calls : \A j \in DOMAIN calls :
          (i < j /\ IsFallback(calls[i])) => IsFallback(calls[j])
    /\ InFallback => output = <<[kind |-> "compile_error", of |-> built.err]>>
    /\ (pc = "derived" /\ built.ok) =>
          /\ Len(Fallback) = 0
          /\ output = <<[kind |-> "source", of |-> built.val]>>
    /\ (pc = "derived" /\ ~built.ok) =>
          /\ Len(Fallback) > 0
          /\ skeleton.ok <=> Fallback[Len(Fallback)].ok
          /\ output[1] = [kind |-> "compile_error", of |-> built.err]
          /\ Len(output) = IF skeleton.ok THEN 2 ELSE 1
          /\ skeleton.ok =>
                output[2] = [kind |-> "source", of |-> skeleton.val]

\* the block selector was not found, then build_skeleton failed in the
\* generator: the output is the one error of build_template
C11_Witness ==
    /\ pc = "derived"
    /\ ~built.ok
    /\ built.err = <<"cannot find block", "content">>
    /\ Len(Fallback) = 3
    /\ ~skeleton.ok
    /\ skeleton.err = <<"generator">>
    /\ output = <<[kind |-> "compile_error",
                   of |-> <<"cannot find block", "content">>]>>

Called(fn) == \E i \in DOMAIN Primary : Primary[i].fn = fn

\* build_template is past line 85: every Context::new succeeded and the
\* decision on the heritage is taken
HeritageDecided ==
    /\ Called("Context::new")
    /\ Primary[Len(Primary)].fn = "Context::new" => Primary[Len(Primary)].ok
    /\ pc # "bt_heritage"

RootContext == contexts[input.val.path]

\* C12: Heritage::new is called exactly when the context of the root template
\* has a block or an extends, and Generator::new is given Some(heritage) in
\* exactly those runs and None in the others; when the graph is built, a block
\* is requested and the graph does not hold it, build_template returns
\* "cannot find block <name>" and the generator is not called.
C12_HeritageBuilt ==
    /\ ~HeritageDecided => (heritage = None /\ ~Called("Heritage::new"))
    /\ HeritageDecided =>
          /\ Called("Heritage::new") <=>
                (RootContext.blocks # {} \/ RootContext.extends # None)
          /\ (heritage # None) <=> Called("Heritage::new")
          /\ (Called("Generator::build") /\ built.ok) =>
                built.val = <<"impl", heritage>>
          /\ (heritage # None /\ input.val.block # None
                /\ input.val.block[1] \notin heritage[1].blocks) =>
                /\ BuildReturned
                /\ ~built.ok
                /\ built.err = <<"cannot find block", input.val.block[1]>>
                /\ pc # "bt_generate"
                /\ ~Called("Generator::build")

\* the root template only extends another one, whose graph holds "footer"
\* and not the requested "content"
C12_Witness ==
    /\ HeritageDecided
    /\ RootContext.blocks = {}
    /\ RootContext.extends # None
    /\ input.val.block = Some("content")
    /\ heritage = Some([blocks |-> {"footer"}])
    /\ built = Err(<<"cannot find block", "content">>)
    /\ ~Called("Generator::build")

Displayed == pc = "done_fmt"
BothTexts == file_info.source # None /\ file_info.node_source # None

\* the characters of the enclosing text that stand before the sub-text
Before ==
    LET src == file_info.source[1]
        sub == file_info.node_source[1]
        At(k) == SubSeq(src, k + 1, k + Len(sub)) = sub
        k0 == CHOOSE k \in 0..Len(src) : At(k) /\ \A l \in 0..(k - 1) : ~At(l)
    IN  SubSeq(src, 1, k0)

IsBreak(c) == c = "\n"

\* the zero-based row of the sub-text: the line breaks before it
ZeroBasedRow == Len(SelectSeq(Before, IsBreak))

\* the zero-based column of the sub-text: the characters before it on its line
ZeroBasedColumn ==
    LET OnLine(n) == \A i \in (Len(Before) - n + 1)..Len(Before) :
                        ~IsBreak(Before[i])
    IN  CHOOSE n \in 0..Len(Before) :
            OnLine(n) /\ (n < Len(Before) => ~OnLine(n + 1))

\* the places of the row and of the column in "\n  --> path:row:column\n..."
PrintedRow == rendered[4]
PrintedColumn == rendered[6]

\* C13: a FileInfo with both texts is displayed as path:row:column with the
\* zero-based row of the sub-text plus one and its zero-based column plus one;
\* a FileInfo that lacks a text is displayed as its path alone, with neither.
C13_OneBasedRowColumn ==
    Displayed =>
        IF BothTexts
        THEN /\ Len(rendered) = 8
             /\ PrintedRow = ZeroBasedRow + 1
             /\ PrintedColumn = ZeroBasedColumn + 1
        ELSE /\ Len(rendered) = 2
             /\ rendered[2] \in {file_info.path} \cup
                   {strip_common(dir, file_info.path) : dir \in {root, TplRoot,
                       <<"/", "proj", "templates">>}}

=============================================================================
